---- MODULE Spec2Model ----
(***************************************************************************)
(* State-machine model of the WARP charger (firmware v2) MQTT adapter,     *)
(* charger/warp2.go: construction (feature discovery and capability        *)
(* composition), the base charger contract, metering, identity and phase   *)
(* switching.  The MQTT bus is the environment: every read draws its       *)
(* outcome (timeout, undecodable payload, decoded payload) and every       *)
(* publish draws success or failure.                                       *)
(***************************************************************************)
EXTENDS Integers, Sequences, FiniteSets, TLC

VARIABLES
    cfgEM,        \* cc.EnergyManager # "" (an energy-manager topic root is configured)
    pc,           \* position of NewWarp2FromConfig
    features,     \* wb.features: the nil slice, or a slice holding a set of tokens
    featureReads, \* number of bus reads of <root>/info/features issued so far
    probeLog,     \* per hasFeature call, in order: TRUE iff its read of the capability list failed in transport
    caps,         \* the optional functions handed to decorateWarp2
    ctorErr,      \* the error NewWarp2FromConfig returns
    emCtor,       \* result of the construction-time emState() call
    current,      \* wb.current (mA)
    lastNonzero,  \* history: most recent nonzero current a MaxCurrentMillis call published successfully
    lastPub,      \* history: most recent current a MaxCurrentMillis call published successfully
    last,         \* the most recent operation: arguments, bus traffic, results
    tpc,          \* per caller thread: position inside MaxCurrentMillis
    tcurr,        \* per caller thread: local curr of MaxCurrentMillis
    terr          \* per caller thread: local err of MaxCurrentMillis

vars == <<cfgEM, pc, features, featureReads, probeLog, caps, ctorErr, emCtor,
          current, lastNonzero, lastPub, last, tpc, tcurr, terr>>

-----------------------------------------------------------------------------
(* Bounds of the model *)

MaxMode == 3          \* energy-manager control modes 0..MaxMode
MaxStatusCode == 3    \* charge-state codes -1..MaxStatusCode
MaxLen == 7           \* extended-metering payloads of 0..MaxLen elements
MaxPhases == 3        \* Phases(n) for n in 1..MaxPhases

(* Program constants *)

InitialCurrent == 6000    \* wb.current at construction, mA
MinCurrent == 6000        \* Enabled() threshold, mA
MinLen == 5               \* meterValues rejects len(res) <= 5

\* wb.features: Go's nil slice, and a non-nil slice holding the tokens S
NilSlice == [isNil |-> TRUE, toks |-> {}]
Slice(S) == [isNil |-> FALSE, toks |-> S]

Threads == {1, 2}

FeatureMeter == "meter"
FeatureMeterPhases == "meter_phases"
FeatureNfc == "nfc"

FeaturesTopic == "info/features"
ExternalCurrentTopic == "evse/external_current"
StateTopic == "evse/state"
MeterTopic == "meter/values"
MeterAllTopic == "meter/all_values"
ChargeTopic == "charge_tracker/current_charge"
EmStateTopic == "energy_manager/state"
ExternalCurrentUpdateTopic == "evse/external_current_update"
ExternalControlUpdateTopic == "energy_manager/external_control_update"

Err(k, d) == [kind |-> k, detail |-> d]
NoErr == Err("nil", 0)
ErrTimeout == Err("timeout", 0)
ErrDecode == Err("decode", 0)
ErrPublish == Err("publish", 0)

Write(t, v) == [topic |-> t, value |-> v]

Op(o, a, rd, wr, r, e) ==
    [op |-> o, arg |-> a, reads |-> rd, writes |-> wr, ret |-> r, err |-> e]

-----------------------------------------------------------------------------
(* Inputs *)

\* Payloads of <root>/info/features a probe can decode.
FeatureLists ==
    { {}, {FeatureMeter, FeatureMeterPhases, FeatureNfc} }

\* How one probe of the capability list ends:
\*   timeout  dataG() fails, nothing decoded
\*   syntax   the payload is not valid JSON, nothing decoded
\*   null     the payload is JSON null: Unmarshal succeeds and leaves the slice nil
\*   list     the payload is a JSON array of strings
\*   mixed    the payload is an array holding a non-string element: Unmarshal
\*            stores the array and reports a type error
Probes ==
    { [kind |-> "timeout", list |-> {}],
      [kind |-> "syntax", list |-> {}],
      [kind |-> "null", list |-> {}] }
    \cup { [kind |-> "list", list |-> l] : l \in FeatureLists }
    \cup { [kind |-> "mixed", list |-> l] : l \in {{FeatureMeterPhases}} }

Modes == 0..MaxMode

\* Results of emState(): the zero value with an error, or the decoded mode.
EmReads ==
    { [err |-> e, mode |-> 0] : e \in {ErrTimeout, ErrDecode} }
    \cup { [err |-> NoErr, mode |-> m] : m \in Modes }

\* Results of a read of an object payload holding one number.
NumReads(S) ==
    { [err |-> e, val |-> 0] : e \in {ErrTimeout, ErrDecode} }
    \cup { [err |-> NoErr, val |-> v] : v \in S }

ReportedCurrents == {0, 5999, 6000, 6300, 16000}
StatusCodes == (0 - 1)..MaxStatusCode

\* Extended-metering payloads: element i of payload b is 10*b + i.
MeterPayloads == { [i \in 1..n |-> 10 * b + i] : n \in 0..MaxLen, b \in {1} }

MeterReads ==
    { [err |-> e, val |-> << >>] : e \in {ErrTimeout, ErrDecode} }
    \cup { [err |-> NoErr, val |-> p] : p \in MeterPayloads }

\* Arguments of MaxCurrent (A) and MaxCurrentMillis (exact decimal amps, as micro-amps).
Amps == {0, 6, 16}
MicroAmps == {6300000, 6300900}

-----------------------------------------------------------------------------
(* Pure helpers *)

\* slices.Contains(wb.features, feature); false on the nil slice
Contains(fs, f) == ~fs.isNil /\ f \in fs.toks

\* int64(current * 1e3) for current given as micro-amps: truncation toward zero
ToMilli(ua) == IF ua >= 0 THEN ua \div 1000 ELSE 0 - ((0 - ua) \div 1000)

\* float64(current) of MaxCurrent, as micro-amps
AmpsToMicro(a) == a * 1000000

-----------------------------------------------------------------------------
(* Feature discovery: Warp2.hasFeature *)

\* wb.features after a hasFeature call whose probe (if one is made) ends as p
HasFeatureCache(fs, p) ==
    IF ~fs.isNil THEN fs
    ELSE IF p.kind \in {"list", "mixed"} THEN Slice(p.list)
    ELSE NilSlice

\* whether the call reads the capability-list topic
HasFeatureProbes(fs) == fs.isNil

\* variant: a probe that fails reports the feature as present
HasFeatureRetOptimistic(fs, f, p) ==
    IF ~fs.isNil THEN Contains(fs, f)
    ELSE IF p.kind \in {"list", "null"} THEN Contains(HasFeatureCache(fs, p), f)
    ELSE TRUE

\* the value the call returns
HasFeatureRet(fs, f, p) ==
    IF ~fs.isNil THEN Contains(fs, f)
    ELSE IF p.kind \in {"list", "null"} THEN Contains(HasFeatureCache(fs, p), f)
    ELSE FALSE

\* one hasFeature(root, f, timeout) call as issued by NewWarp2FromConfig
HasFeature(f, p) ==
    /\ features' = HasFeatureCache(features, p)
    /\ featureReads' = featureReads + (IF HasFeatureProbes(features) THEN 1 ELSE 0)
    /\ probeLog' = Append(probeLog, HasFeatureProbes(features) /\ p.kind = "timeout")
    /\ last' = Op("hasFeature", f,
                  IF HasFeatureProbes(features) THEN <<FeaturesTopic>> ELSE << >>,
                  << >>, HasFeatureRet(features, f, p), NoErr)

-----------------------------------------------------------------------------
(* Capability composition: NewWarp2FromConfig *)

NoCaps ==
    [currentPower |-> FALSE, totalEnergy |-> FALSE, currents |-> FALSE,
     voltages |-> FALSE, identity |-> FALSE, phases |-> FALSE]

NoEmRead == [err |-> Err("unread", 0), mode |-> 0]

\* variant: the err of emState() is not looked at, only the (zero) value it returned
PhasesAttachedIgnoringErr(cfg, em) == cfg /\ em.mode # 1

\* whether phases1p3p is handed to the decorator
PhasesAttached(cfg, em) == cfg /\ em.err = NoErr /\ em.mode # 1

\* the error returned next to the decorated charger: the err of NewWarp2, which is
\* nil here; the err of the emState() call is scoped to its if statement
ConstructErr(outer, em) == outer

UnchangedCharger == UNCHANGED <<current, lastNonzero, lastPub, tpc, tcurr, terr>>

ProbeMeter(p) ==
    /\ pc = "meter"
    /\ HasFeature(FeatureMeter, p)
    /\ caps' = [caps EXCEPT !.currentPower = HasFeatureRet(features, FeatureMeter, p),
                            !.totalEnergy = HasFeatureRet(features, FeatureMeter, p)]
    /\ pc' = "meter_phases"
    /\ UNCHANGED <<cfgEM, ctorErr, emCtor>>
    /\ UnchangedCharger

ProbeMeterPhases(p) ==
    /\ pc = "meter_phases"
    /\ HasFeature(FeatureMeterPhases, p)
    /\ caps' = [caps EXCEPT !.currents = HasFeatureRet(features, FeatureMeterPhases, p),
                            !.voltages = HasFeatureRet(features, FeatureMeterPhases, p)]
    /\ pc' = "nfc"
    /\ UNCHANGED <<cfgEM, ctorErr, emCtor>>
    /\ UnchangedCharger

ProbeNfc(p) ==
    /\ pc = "nfc"
    /\ HasFeature(FeatureNfc, p)
    /\ caps' = [caps EXCEPT !.identity = HasFeatureRet(features, FeatureNfc, p)]
    /\ pc' = "phases"
    /\ UNCHANGED <<cfgEM, ctorErr, emCtor>>
    /\ UnchangedCharger

\* lines 79-86: the energy-manager gate and the return
ComposePhases(em) ==
    /\ pc = "phases"
    /\ IF cfgEM
         THEN /\ emCtor' = em
              /\ last' = Op("emState", 0, <<EmStateTopic>>, << >>, em.mode, em.err)
         ELSE /\ emCtor' = NoEmRead
              /\ last' = Op("compose", 0, << >>, << >>, 0, NoErr)
    /\ caps' = [caps EXCEPT !.phases = PhasesAttached(cfgEM, IF cfgEM THEN em ELSE NoEmRead)]
    /\ ctorErr' = ConstructErr(NoErr, IF cfgEM THEN em ELSE NoEmRead)
    /\ pc' = "ready"
    /\ UNCHANGED <<cfgEM, features, featureReads, probeLog>>
    /\ UnchangedCharger

Init ==
    /\ cfgEM \in BOOLEAN
    /\ pc = "meter"
    /\ features = NilSlice
    /\ featureReads = 0
    /\ probeLog = << >>
    /\ caps = NoCaps
    /\ ctorErr = Err("pending", 0)
    /\ emCtor = NoEmRead
    /\ current = InitialCurrent
    /\ lastNonzero = InitialCurrent
    /\ lastPub = InitialCurrent
    /\ last = Op("NewWarp2", 0, << >>, << >>, 0, NoErr)
    /\ tpc = [t \in Threads |-> "idle"]
    /\ tcurr = [t \in Threads |-> 0]
    /\ terr = [t \in Threads |-> NoErr]

-----------------------------------------------------------------------------
(* Base charger contract *)

Ready == pc = "ready"
AllIdle == \A t \in Threads : tpc[t] = "idle"

UnchangedAdapter ==
    UNCHANGED <<cfgEM, pc, features, featureReads, probeLog, caps, ctorErr, emCtor>>
UnchangedThreads == UNCHANGED <<tpc, tcurr, terr>>
UnchangedCurrent == UNCHANGED <<current, lastNonzero, lastPub>>

PublishErr(ok) == IF ok THEN NoErr ELSE ErrPublish

\* the current Enable hands to the setter
EnableCurrent(enable, cur) == IF enable THEN cur ELSE 0

Enable(enable, ok) ==
    /\ Ready
    /\ last' = Op("Enable", enable, << >>,
                  <<Write(ExternalCurrentUpdateTopic, EnableCurrent(enable, current))>>,
                  0, PublishErr(ok))
    /\ UnchangedCurrent
    /\ UnchangedAdapter
    /\ UnchangedThreads

\* variant: strict comparison
EnabledRetStrict(reported) == reported > MinCurrent

\* res.Current >= 6000
EnabledRet(reported) == reported >= MinCurrent

Enabled(r) ==
    /\ Ready
    /\ last' = Op("Enabled", r, <<ExternalCurrentTopic>>, << >>, EnabledRet(r.val), r.err)
    /\ UnchangedCurrent
    /\ UnchangedAdapter
    /\ UnchangedThreads

StatusNone == ""
StatusA == "A"
StatusB == "B"
StatusC == "C"

\* variant: no default branch, an unknown code leaves res and err as they were
StatusOfNoDefault(code) ==
    CASE code = 0 -> [ret |-> StatusA, err |-> NoErr]
      [] code = 1 -> [ret |-> StatusB, err |-> NoErr]
      [] code = 2 -> [ret |-> StatusC, err |-> NoErr]
      [] OTHER -> [ret |-> StatusNone, err |-> NoErr]

\* the switch over status.Iec61851State
StatusOf(code) ==
    CASE code = 0 -> [ret |-> StatusA, err |-> NoErr]
      [] code = 1 -> [ret |-> StatusB, err |-> NoErr]
      [] code = 2 -> [ret |-> StatusC, err |-> NoErr]
      [] OTHER -> [ret |-> StatusNone, err |-> Err("invalid status", code)]

StatusResult(r) ==
    IF r.err # NoErr THEN [ret |-> StatusNone, err |-> r.err] ELSE StatusOf(r.val)

Status(r) ==
    /\ Ready
    /\ last' = Op("Status", r, <<StateTopic>>, << >>, StatusResult(r).ret, StatusResult(r).err)
    /\ UnchangedCurrent
    /\ UnchangedAdapter
    /\ UnchangedThreads

\* variant: wb.current is assigned whatever the setter returned
StoreCurrentAlways(cur, curr, err) == curr

\* wb.current after MaxCurrentMillis: assigned only when the setter succeeded
StoreCurrent(cur, curr, err) == IF err = NoErr THEN curr ELSE cur

\* history of the currents published by MaxCurrentMillis
Published(curr, ok) ==
    /\ lastPub' = IF ok THEN curr ELSE lastPub
    /\ lastNonzero' = IF ok /\ curr # 0 THEN curr ELSE lastNonzero

\* MaxCurrentMillis, run by one caller without interleaving
MaxCurrentMillisCall(name, arg, ua, ok) ==
    /\ Ready
    /\ AllIdle
    /\ current' = StoreCurrent(current, ToMilli(ua), PublishErr(ok))
    /\ Published(ToMilli(ua), ok)
    /\ last' = Op(name, arg, << >>, <<Write(ExternalCurrentUpdateTopic, ToMilli(ua))>>,
                  0, PublishErr(ok))
    /\ UnchangedAdapter
    /\ UnchangedThreads

MaxCurrent(a, ok) == MaxCurrentMillisCall("MaxCurrent", a, AmpsToMicro(a), ok)

MaxCurrentMillis(ua, ok) == MaxCurrentMillisCall("MaxCurrentMillis", ua, ua, ok)

-----------------------------------------------------------------------------
(* Metering and identity *)

MeterObjReads ==
    { [err |-> e, power |-> 0, energy |-> 0] : e \in {ErrTimeout, ErrDecode} }
    \cup { [err |-> NoErr, power |-> 1500, energy |-> 42] }

CurrentPower(r) ==
    /\ Ready
    /\ caps.currentPower
    /\ last' = Op("CurrentPower", r, <<MeterTopic>>, << >>, r.power, r.err)
    /\ UnchangedCurrent
    /\ UnchangedAdapter
    /\ UnchangedThreads

TotalEnergy(r) ==
    /\ Ready
    /\ caps.totalEnergy
    /\ last' = Op("TotalEnergy", r, <<MeterTopic>>, << >>, r.energy, r.err)
    /\ UnchangedCurrent
    /\ UnchangedAdapter
    /\ UnchangedThreads

ErrLength == Err("invalid length", 0)

\* variant: an array of six elements is rejected too
MeterValuesSixRejected(r) ==
    IF r.err # NoErr THEN [val |-> << >>, err |-> r.err]
    ELSE IF Len(r.val) <= MinLen + 1 THEN [val |-> << >>, err |-> ErrLength]
    ELSE [val |-> r.val, err |-> NoErr]

\* meterValues: the decoded array, rejected when len(res) <= 5
MeterValues(r) ==
    IF r.err # NoErr THEN [val |-> << >>, err |-> r.err]
    ELSE IF Len(r.val) <= MinLen THEN [val |-> << >>, err |-> ErrLength]
    ELSE [val |-> r.val, err |-> NoErr]

\* res[k] of a Go slice held as a 1-based sequence
At(res, k) == res[k + 1]

CurrentsResult(r) ==
    IF MeterValues(r).err # NoErr
      THEN [ret |-> <<0, 0, 0>>, err |-> MeterValues(r).err]
      ELSE [ret |-> <<At(MeterValues(r).val, 3), At(MeterValues(r).val, 4),
                      At(MeterValues(r).val, 5)>>, err |-> NoErr]

VoltagesResult(r) ==
    IF MeterValues(r).err # NoErr
      THEN [ret |-> <<0, 0, 0>>, err |-> MeterValues(r).err]
      ELSE [ret |-> <<At(MeterValues(r).val, 0), At(MeterValues(r).val, 1),
                      At(MeterValues(r).val, 2)>>, err |-> NoErr]

Currents(r) ==
    /\ Ready
    /\ caps.currents
    /\ last' = Op("Currents", r, <<MeterAllTopic>>, << >>,
                  CurrentsResult(r).ret, CurrentsResult(r).err)
    /\ UnchangedCurrent
    /\ UnchangedAdapter
    /\ UnchangedThreads

Voltages(r) ==
    /\ Ready
    /\ caps.voltages
    /\ last' = Op("Voltages", r, <<MeterAllTopic>>, << >>,
                  VoltagesResult(r).ret, VoltagesResult(r).err)
    /\ UnchangedCurrent
    /\ UnchangedAdapter
    /\ UnchangedThreads

TagReads ==
    { [err |-> e, tag |-> ""] : e \in {ErrTimeout, ErrDecode} }
    \cup { [err |-> NoErr, tag |-> g] : g \in {"", "04:AB"} }

Identify(r) ==
    /\ Ready
    /\ caps.identity
    /\ last' = Op("Identify", r, <<ChargeTopic>>, << >>, r.tag, r.err)
    /\ UnchangedCurrent
    /\ UnchangedAdapter
    /\ UnchangedThreads

-----------------------------------------------------------------------------
(* Phase switching: Warp2.phases1p3p *)

\* variant: only mode 1 blocks the override
ExternalControlBlockedOnlyActive(mode) == mode = 1

\* res.ExternalControl > 0
ExternalControlBlocked(mode) == mode > 0

\* whether phases1p3p reaches the phasesS call, given its own emState() result
PhasesWrites(em) == em.err = NoErr /\ ~ExternalControlBlocked(em.mode)

PhasesErr(em, ok) ==
    IF em.err # NoErr THEN em.err
    ELSE IF ExternalControlBlocked(em.mode) THEN Err("external control not available", em.mode)
    ELSE PublishErr(ok)

Phases(n, em, ok) ==
    /\ Ready
    /\ caps.phases
    /\ PhasesWrites(em) \/ ok      \* the publish outcome exists only when phasesS is called
    /\ last' = Op("Phases", [n |-> n, em |-> em], <<EmStateTopic>>,
                  IF PhasesWrites(em) THEN <<Write(ExternalControlUpdateTopic, n)>> ELSE << >>,
                  0, PhasesErr(em, ok))
    /\ UnchangedCurrent
    /\ UnchangedAdapter
    /\ UnchangedThreads

-----------------------------------------------------------------------------
(* MaxCurrentMillis run by concurrent callers: the publish (line 240) and the *)
(* assignment to wb.current (lines 241-243) are separate steps               *)

McmPublish(t, ua, ok) ==
    /\ Ready
    /\ tpc[t] = "idle"
    /\ tpc' = [tpc EXCEPT ![t] = "store"]
    /\ tcurr' = [tcurr EXCEPT ![t] = ToMilli(ua)]
    /\ terr' = [terr EXCEPT ![t] = PublishErr(ok)]
    /\ Published(ToMilli(ua), ok)
    /\ last' = Op("MaxCurrentMillis", ua, << >>,
                  <<Write(ExternalCurrentUpdateTopic, ToMilli(ua))>>, 0, PublishErr(ok))
    /\ UNCHANGED current
    /\ UnchangedAdapter

McmStore(t) ==
    /\ Ready
    /\ tpc[t] = "store"
    /\ current' = StoreCurrent(current, tcurr[t], terr[t])
    /\ tpc' = [tpc EXCEPT ![t] = "idle"]
    /\ tcurr' = [tcurr EXCEPT ![t] = 0]
    /\ terr' = [terr EXCEPT ![t] = NoErr]
    /\ UNCHANGED <<lastNonzero, lastPub, last>>
    /\ UnchangedAdapter

-----------------------------------------------------------------------------
(* Specifications *)

Construct(P, E) ==
    \/ \E p \in P : ProbeMeter(p)
    \/ \E p \in P : ProbeMeterPhases(p)
    \/ \E p \in P : ProbeNfc(p)
    \/ \E em \in E : ComposePhases(em)

Next ==
    \/ Construct(Probes, EmReads)
    \/ \E e \in BOOLEAN, ok \in BOOLEAN : Enable(e, ok)
    \/ \E r \in NumReads(ReportedCurrents) : Enabled(r)
    \/ \E r \in NumReads(StatusCodes) : Status(r)
    \/ \E a \in Amps, ok \in BOOLEAN : MaxCurrent(a, ok)
    \/ \E ua \in MicroAmps, ok \in BOOLEAN : MaxCurrentMillis(ua, ok)
    \/ \E r \in MeterObjReads : CurrentPower(r)
    \/ \E r \in MeterObjReads : TotalEnergy(r)
    \/ \E r \in MeterReads : Currents(r)
    \/ \E r \in MeterReads : Voltages(r)
    \/ \E r \in TagReads : Identify(r)
    \/ \E n \in 1..MaxPhases, em \in EmReads, ok \in BOOLEAN : Phases(n, em, ok)

Spec == Init /\ [][Next]_vars

\* two callers inside MaxCurrentMillis at once, and Enable
ConcMicroAmps == {AmpsToMicro(a) : a \in {6, 16}}
ConcProbes == {p \in Probes : p.kind \in {"timeout", "list"}}
ConcEmReads == {em \in EmReads : em.err # ErrDecode /\ em.mode <= 1}

NextConc ==
    \/ Construct(ConcProbes, ConcEmReads)
    \/ \E t \in Threads, ua \in ConcMicroAmps, ok \in BOOLEAN : McmPublish(t, ua, ok)
    \/ \E t \in Threads : McmStore(t)
    \/ \E e \in BOOLEAN, ok \in BOOLEAN : Enable(e, ok)

SpecConc == Init /\ [][NextConc]_vars

-----------------------------------------------------------------------------
(* Properties *)

SetCurrentOps == {"MaxCurrent", "MaxCurrentMillis"}

\* C1: every Enable call issues exactly one set-current write; Enable(false)
\* writes 0 and Enable(true) writes the most recent nonzero current that a
\* MaxCurrent/MaxCurrentMillis call applied successfully (6000 mA if none),
\* never zero.
C1_EnableWritesLastNonzero ==
    last.op = "Enable" =>
        /\ last.writes = <<Write(ExternalCurrentUpdateTopic,
                                 IF last.arg THEN lastNonzero ELSE 0)>>
        /\ last.arg => last.writes[1].value # 0

\* C2: wb.current changes only in a MaxCurrent/MaxCurrentMillis call whose
\* write succeeded, and then to the milliamp value written; a call whose write
\* fails and every other operation leave it unchanged.
C2_CacheChangesOnlyOnSuccessfulSet ==
    [][ /\ current' # current =>
             /\ last'.op \in SetCurrentOps
             /\ last'.err = NoErr
             /\ last'.writes = <<Write(ExternalCurrentUpdateTopic, current')>>
        /\ (last'.op \in SetCurrentOps /\ last'.err # NoErr) => current' = current
        /\ last'.op \notin SetCurrentOps => current' = current ]_vars

C2_Witness ==
    /\ last.op = "MaxCurrentMillis"
    /\ last.err = NoErr
    /\ last.arg = 6300900
    /\ current = 6300

\* C3: every Phases(n) call reads the energy-manager state itself and issues
\* the phase-count write (of n) if and only if that read succeeded and reported
\* control mode 0; otherwise it returns an error and writes nothing.
C3_PhasesWritesIffAvailable ==
    last.op = "Phases" =>
        /\ last.reads = <<EmStateTopic>>
        /\ (last.writes # << >>) <=> (last.arg.em.err = NoErr /\ last.arg.em.mode = 0)
        /\ last.writes # << >> =>
               last.writes = <<Write(ExternalControlUpdateTopic, last.arg.n)>>
        /\ last.writes = << >> => last.err # NoErr

\* the construction-time snapshot said "available", the call-time read says
\* "actively controlling": the call is refused
C3_Witness ==
    /\ last.op = "Phases"
    /\ emCtor.err = NoErr /\ emCtor.mode = 0
    /\ last.arg.em.err = NoErr /\ last.arg.em.mode = 1
    /\ last.writes = << >>
    /\ last.err = Err("external control not available", 1)

\* C4: across the hasFeature calls of one adapter the capability-list topic is
\* read at most once, also when the first read timed out or did not parse.
C4_FeaturesReadAtMostOnce == featureReads <= 1

AllProbesErrored == Len(probeLog) = 3 /\ \A i \in 1..3 : probeLog[i]

\* C5 as stated: when the feature probe errors in transport, construction
\* returns no error and none of the optional capabilities is exposed, phase
\* switching included.
C5_ProbeErrorExposesNothing ==
    (Ready /\ AllProbesErrored) => (ctorErr = NoErr /\ caps = NoCaps)

\* C5 as amended: construction returns no error, and a feature-gated
\* capability is not exposed when the probe made by its own hasFeature call
\* errors in transport; so when every probe errors, none of power meter, energy
\* meter, phase currents, phase voltages and identity is exposed.
C5_ProbeErrorOmitsFeatureCapabilities ==
    Ready =>
        /\ ctorErr = NoErr
        /\ probeLog[1] => (~caps.currentPower /\ ~caps.totalEnergy)
        /\ probeLog[2] => (~caps.currents /\ ~caps.voltages)
        /\ probeLog[3] => ~caps.identity
        /\ AllProbesErrored =>
               [caps EXCEPT !.phases = FALSE] = NoCaps

\* every probe errored and phase switching is exposed all the same
C5_Witness ==
    /\ Ready
    /\ AllProbesErrored
    /\ featureReads = 3
    /\ caps = [NoCaps EXCEPT !.phases = TRUE]

\* C6: phase switching is attached iff an energy-manager root is configured,
\* the construction-time read of its state succeeded and the mode read is not
\* 1; a failed read omits it without failing construction; the exposed
\* capabilities never change after construction.
C6_PhasesAttachedIff ==
    /\ [](Ready =>
            /\ caps.phases <=> (cfgEM /\ emCtor.err = NoErr /\ emCtor.mode # 1)
            /\ (cfgEM /\ emCtor.err # NoErr) => (~caps.phases /\ ctorErr = NoErr))
    /\ [][Ready => (caps' = caps /\ Ready')]_vars

\* attached at construction, and still exposed when the energy manager later
\* reports that it is actively controlling
C6_Witness ==
    /\ Ready
    /\ caps.phases
    /\ emCtor.mode = 0
    /\ last.op = "Phases"
    /\ last.arg.em.mode = 1

\* C7: Enabled() reads the applied-current topic and returns true iff the
\* current decoded from it (zero when nothing was decoded) is at least 6000 mA,
\* whatever wb.current holds, and it returns the read or decode error.
C7_EnabledIffReportedAtLeastMin ==
    last.op = "Enabled" =>
        /\ last.reads = <<ExternalCurrentTopic>>
        /\ last.writes = << >>
        /\ last.ret <=> last.arg.val >= 6000
        /\ last.err = last.arg.err

\* the device reports exactly 6000 mA while the cache holds 0
C7_Witness ==
    /\ last.op = "Enabled"
    /\ last.arg.err = NoErr
    /\ last.arg.val = 6000
    /\ last.ret
    /\ current = 0

\* C8: Status() maps code 0 to A, 1 to B, 2 to C with no error; every other
\* code gives an error carrying the code and none of the three states.
C8_StatusMapping ==
    (last.op = "Status" /\ last.arg.err = NoErr) =>
        /\ last.arg.val = 0 => (last.ret = "A" /\ last.err = NoErr)
        /\ last.arg.val = 1 => (last.ret = "B" /\ last.err = NoErr)
        /\ last.arg.val = 2 => (last.ret = "C" /\ last.err = NoErr)
        /\ last.arg.val \notin {0, 1, 2} =>
               /\ last.err = Err("invalid status", last.arg.val)
               /\ last.ret \notin {"A", "B", "C"}

C8_Witness ==
    /\ last.op = "Status"
    /\ last.arg.err = NoErr
    /\ last.arg.val = 3
    /\ last.err = Err("invalid status", 3)

\* C9: on a decoded extended-metering payload of length <= 5, currents() and
\* voltages() fail with the length error; on length 6 or more voltages()
\* returns elements 0,1,2 and currents() elements 3,4,5, with no error.
C9_MeterSlices ==
    (last.op \in {"Currents", "Voltages"} /\ last.arg.err = NoErr) =>
        IF Len(last.arg.val) <= 5
          THEN last.err = ErrLength
          ELSE /\ last.err = NoErr
               /\ last.op = "Voltages" =>
                      last.ret = <<last.arg.val[1], last.arg.val[2], last.arg.val[3]>>
               /\ last.op = "Currents" =>
                      last.ret = <<last.arg.val[4], last.arg.val[5], last.arg.val[6]>>

C9_Witness ==
    /\ last.op = "Currents"
    /\ last.arg.err = NoErr
    /\ Len(last.arg.val) = 6
    /\ last.ret = <<14, 15, 16>>

\* C10: once all concurrent MaxCurrentMillis calls have returned, wb.current
\* equals the current of the last set-current write published successfully.
C10_CacheIsLastPublished ==
    (Ready /\ AllIdle) => current = lastPub

====
